---- MODULE Spec2Model ----
(***************************************************************************)
(* A model of the emoji tape sampler (src/src/utils/llm-sampler.ts) and of  *)
(* the display layer that drives it (src/src/components/                    *)
(* EmojiTapeDisplay.tsx).                                                   *)
(*                                                                         *)
(* Numbers.  A JavaScript number is modelled as an exact fraction           *)
(* [n |-> numerator, d |-> denominator] in lowest terms with d > 0; the    *)
(* not-a-number value is the fraction 0/0 (d = 0), which is how the code    *)
(* produces it.  The sampler's arithmetic is modelled without the rounding  *)
(* of binary64; calculatePrime2Variance, whose result depends on it, is     *)
(* modelled in binary64 arithmetic (see there).                             *)
(* Math.tanh(x) is modelled as the value [tanhOf |-> x]: tanh is odd and    *)
(* strictly increasing, so its absolute value, its order and the floor of   *)
(* five times it are decided from the argument; binary64 tanh returns       *)
(* exactly 1 from TanhTable.saturation on, so larger arguments are all     *)
(* mapped to that one value.                                                *)
(*                                                                         *)
(* BigInt.  A Goedel number is a product of powers of the ten registry      *)
(* primes; it is modelled by its unique factorisation, the function from    *)
(* each registry prime to its exponent.                                     *)
(***************************************************************************)
EXTENDS Integers, Sequences, FiniteSets, TLC

(***************************************************************************)
(* Bounds of the model                                                      *)
(***************************************************************************)
MaxCalls == 2
MaxVecLen == 10
MaxNonZero == 3
MaxReduceLen == 6
MaxDims == 3
MaxSegLen == 3
MaxResults == 3
MaxClicks == 1
MaxTicks == 10

(***************************************************************************)
(* Exact fractions                                                          *)
(***************************************************************************)
AbsInt(i) == IF i < 0 THEN -i ELSE i

RECURSIVE Gcd(_, _)
Gcd(a, b) == IF b = 0 THEN a ELSE Gcd(b, a % b)

\* n/d as the code's division yields it: 0/0 is NaN
Rat(n, d) ==
    IF d = 0 THEN [n |-> 0, d |-> 0]
    ELSE LET s == IF d < 0 THEN -1 ELSE 1
             g == Gcd(AbsInt(n), AbsInt(d))
         IN  [n |-> (s * n) \div g, d |-> (s * d) \div g]

NaN == Rat(0, 0)
Zero == Rat(0, 1)
IsNaN(x) == x.d = 0

RatAdd(x, y) ==
    IF IsNaN(x) \/ IsNaN(y) THEN NaN
    ELSE Rat(x.n * y.d + y.n * x.d, x.d * y.d)

RatDivInt(x, k) == IF IsNaN(x) THEN NaN ELSE Rat(x.n, x.d * k)

RatAbs(x) == [n |-> AbsInt(x.n), d |-> x.d]

\* x < y on numbers (never called on NaN)
RatLess(x, y) == x.n * y.d < y.n * x.d

(***************************************************************************)
(* Math.tanh, Math.abs of it and Math.floor of five times it               *)
(***************************************************************************)
\* Thresholds on the argument, in units of 1/den: atanh(1/5), atanh(2/5),
\* atanh(3/5), atanh(4/5), rounded up; binary64 tanh(x) = 1 exactly from
\* x = 19.0616 on
TanhTable ==
    [den |-> 10000, fifths |-> <<2028, 4237, 6932, 10987>>, saturation |-> 190616]

\* |x| >= num / TanhTable.den
AtLeast(x, num) == AbsInt(x.n) * TanhTable.den >= num * x.d

Saturated(x) == AtLeast(x, TanhTable.saturation)

Tanh(x) ==
    IF IsNaN(x) THEN [tanhOf |-> NaN]
    ELSE IF Saturated(x)
         THEN [tanhOf |-> Rat((IF x.n < 0 THEN -1 ELSE 1) * TanhTable.saturation,
                               TanhTable.den)]
         ELSE [tanhOf |-> x]

\* Math.abs(t) for t a value of Math.tanh
AbsTanh(t) == [tanhOf |-> RatAbs(t.tanhOf)]

\* t < u for values of Math.tanh
TanhLess(t, u) == RatLess(t.tanhOf, u.tanhOf)

\* Math.ceil in place of Math.floor (no tanh value times 5 is a whole number
\* below saturation, except 0)
FloorAbsTimes5_Ceiling(t) ==
    IF Saturated(t.tanhOf) THEN 5
    ELSE IF t.tanhOf = Zero THEN 0
    ELSE 1 + Cardinality({k \in 1..Len(TanhTable.fifths) :
                             AtLeast(t.tanhOf, TanhTable.fifths[k])})

\* Math.floor(Math.abs(t) * 5)
FloorAbsTimes5(t) ==
    IF Saturated(t.tanhOf) THEN 5
    ELSE Cardinality({k \in 1..Len(TanhTable.fifths) :
                         AtLeast(t.tanhOf, TanhTable.fifths[k])})

Max(a, b) == IF a >= b THEN a ELSE b
Min(a, b) == IF a <= b THEN a ELSE b

(***************************************************************************)
(* The prime registry and the default tape                                  *)
(***************************************************************************)
INTRINSIC_PRIMES == <<
    [emoji |-> "tophat",  prime |-> 2,  meaning |-> "Creativity"],
    [emoji |-> "die",     prime |-> 3,  meaning |-> "Chaos"],
    [emoji |-> "numbers", prime |-> 5,  meaning |-> "Structure"],
    [emoji |-> "notes",   prime |-> 7,  meaning |-> "Harmony"],
    [emoji |-> "sax",     prime |-> 11, meaning |-> "Expression"],
    [emoji |-> "scroll",  prime |-> 13, meaning |-> "Legacy"],
    [emoji |-> "dna",     prime |-> 17, meaning |-> "Evolution"],
    [emoji |-> "target",  prime |-> 19, meaning |-> "Focus"],
    [emoji |-> "rocket",  prime |-> 23, meaning |-> "Launch"],
    [emoji |-> "planet",  prime |-> 29, meaning |-> "System"] >>

RegistryPrimes == {INTRINSIC_PRIMES[i].prime : i \in 1..Len(INTRINSIC_PRIMES)}
RegistryEmojis == {INTRINSIC_PRIMES[i].emoji : i \in 1..Len(INTRINSIC_PRIMES)}

\* a glyph outside the registry (U+2B50) and the segment separator
Star == "star"
Bar == "|"
Glyphs == RegistryEmojis \cup {Bar, Star}

\* the UTF-16 code units of each glyph
CodeUnits(g) ==
    CASE g = "tophat"  -> <<55356, 57257>>
      [] g = "die"     -> <<55356, 57266>>
      [] g = "numbers" -> <<55357, 56610>>
      [] g = "notes"   -> <<55356, 57270>>
      [] g = "sax"     -> <<55356, 57271>>
      [] g = "scroll"  -> <<55357, 56540>>
      [] g = "dna"     -> <<55358, 56812>>
      [] g = "target"  -> <<55356, 57263>>
      [] g = "rocket"  -> <<55357, 56960>>
      [] g = "planet"  -> <<55358, 56976>>
      [] g = "|"       -> <<124>>
      [] g = "star"    -> <<11088>>

\* a tape is the sequence of its code points
EMOJI_BLOCK_TAPE == <<
    "planet", "tophat", "numbers", "die", "notes", "sax", "scroll", "|",
    "planet", "sax", "dna", "die", "scroll", "|",
    "planet", "notes", "numbers", "target", "die", "scroll", "rocket" >>

\* String.length: the number of UTF-16 code units
RECURSIVE StringLength(_)
StringLength(tape) ==
    IF tape = <<>> THEN 0
    ELSE Len(CodeUnits(Head(tape))) + StringLength(Tail(tape))

(***************************************************************************)
(* reduceToPrimeDimensions                                                  *)
(***************************************************************************)
\* Array.prototype.slice(start, end) for 0 <= start <= end
Slice(arr, start, end) ==
    SubSeq(arr, Min(start, Len(arr)) + 1, Min(end, Len(arr)))

\* chunk.reduce((sum, val) => sum + val, 0)
RECURSIVE SumFrom(_, _)
SumFrom(sum, chunk) ==
    IF chunk = <<>> THEN sum
    ELSE SumFrom(RatAdd(sum, Head(chunk)), Tail(chunk))

\* the chunk taken one element too long
ChunkAverage_OneTooLong(embedding, i, chunkSize) ==
    LET start == i * chunkSize
        end == start + chunkSize + 1
        chunk == Slice(embedding, start, end)
    IN  RatDivInt(SumFrom(Zero, chunk), Len(chunk))

ChunkAverage(embedding, i, chunkSize) ==
    LET start == i * chunkSize
        end == start + chunkSize
        chunk == Slice(embedding, start, end)
    IN  RatDivInt(SumFrom(Zero, chunk), Len(chunk))

ReduceToPrimeDimensions(embedding, targetDims) ==
    LET chunkSize == Len(embedding) \div targetDims
    IN  [i \in 1..targetDims |-> ChunkAverage(embedding, i - 1, chunkSize)]

(***************************************************************************)
(* mapEmbeddingsToPrimes                                                    *)
(***************************************************************************)
\* x || 0 on a number: NaN and 0 are falsy
OrZero(x) == IF IsNaN(x) \/ x = Zero THEN Zero ELSE x

\* the callback of INTRINSIC_PRIMES.map, index 0-based
InitialMapping(reducedDimensions, index) ==
    LET primeInfo == INTRINSIC_PRIMES[index + 1]
        activation ==
            IF index + 1 \in DOMAIN reducedDimensions
            THEN OrZero(reducedDimensions[index + 1])
            ELSE Zero
    IN  [prime |-> primeInfo.prime,
         emoji |-> primeInfo.emoji,
         activation |-> activation,
         normalizedActivation |-> Tanh(activation),
         rank |-> index]

\* the sign of Math.abs(b.normalizedActivation) - Math.abs(a.normalizedActivation)
CompareMappings(a, b) ==
    LET x == AbsTanh(a.normalizedActivation)
        y == AbsTanh(b.normalizedActivation)
    IN  IF TanhLess(x, y) THEN 1 ELSE IF TanhLess(y, x) THEN -1 ELSE 0

\* an unstable sort: m goes before the elements that compare equal to it
RECURSIVE InsertSorted_Unstable(_, _)
InsertSorted_Unstable(sorted, m) ==
    IF sorted = <<>> THEN <<m>>
    ELSE IF CompareMappings(Head(sorted), m) >= 0
         THEN <<m>> \o sorted
         ELSE <<Head(sorted)>> \o InsertSorted_Unstable(Tail(sorted), m)

\* Array.prototype.sort is stable: m goes before the first element that the
\* comparator orders strictly after it
RECURSIVE InsertSorted(_, _)
InsertSorted(sorted, m) ==
    IF sorted = <<>> THEN <<m>>
    ELSE IF CompareMappings(Head(sorted), m) > 0
         THEN <<m>> \o sorted
         ELSE <<Head(sorted)>> \o InsertSorted(Tail(sorted), m)

RECURSIVE SortMappings(_)
SortMappings(mappings) ==
    IF mappings = <<>> THEN <<>>
    ELSE InsertSorted(SortMappings(SubSeq(mappings, 1, Len(mappings) - 1)),
                      mappings[Len(mappings)])

\* the ranks left as the map callback set them
AssignRanks_Kept(mappings) == mappings

\* mappings.forEach((mapping, index) => mapping.rank = index + 1)
AssignRanks(mappings) ==
    [i \in 1..Len(mappings) |-> [mappings[i] EXCEPT !.rank = i]]

\* lines 120-137, from the reduced dimensions on
RankedMappings(reducedDimensions) ==
    LET mappings ==
            [i \in 1..Len(INTRINSIC_PRIMES) |-> InitialMapping(reducedDimensions, i - 1)]
    IN  AssignRanks(SortMappings(mappings))

MapEmbeddingsToPrimes(embeddings) ==
    LET pooled == embeddings.pooledEmbedding
        primeCount == Len(INTRINSIC_PRIMES)
        reducedDimensions == ReduceToPrimeDimensions(pooled, primeCount)
    IN  RankedMappings(reducedDimensions)

(***************************************************************************)
(* encodeAsGodel                                                            *)
(***************************************************************************)
\* BigInt(1) as a factorisation over the registry primes
BigOne == [p \in RegistryPrimes |-> 0]

\* g * BigInt(prime) ** BigInt(exponent)
BigTimesPower(g, prime, exponent) == [g EXCEPT ![prime] = @ + exponent]

\* a primeMap that gives the separator the prime 2
PrimeOf_SeparatorCounted(emoji) ==
    IF emoji = Bar THEN 2
    ELSE IF emoji \in RegistryEmojis
         THEN (CHOOSE e \in {INTRINSIC_PRIMES[i] : i \in 1..Len(INTRINSIC_PRIMES)} :
                   e.emoji = emoji).prime
         ELSE 0

\* primeMap.get(emoji): 0 stands for undefined
PrimeOf(emoji) ==
    IF emoji \in RegistryEmojis
    THEN (CHOOSE e \in {INTRINSIC_PRIMES[i] : i \in 1..Len(INTRINSIC_PRIMES)} :
              e.emoji = emoji).prime
    ELSE 0

\* find with a predicate that accepts every entry
FindMapping_First(primeMappings, prime) ==
    IF primeMappings = <<>> THEN <<>> ELSE <<Head(primeMappings)>>

\* primeMappings.find(m => m.prime === prime): the first match, <<>> for none
RECURSIVE FindMapping(_, _)
FindMapping(primeMappings, prime) ==
    IF primeMappings = <<>> THEN <<>>
    ELSE IF Head(primeMappings).prime = prime THEN <<Head(primeMappings)>>
         ELSE FindMapping(Tail(primeMappings), prime)

\* the exponent without its minimum of 1
Exponent_NoMinimum(primeMappings, prime) ==
    LET mapping == FindMapping(primeMappings, prime)
    IN  IF mapping # <<>>
        THEN FloorAbsTimes5(mapping[1].normalizedActivation)
        ELSE 1

Exponent(primeMappings, prime) ==
    LET mapping == FindMapping(primeMappings, prime)
    IN  IF mapping # <<>>
        THEN Max(1, FloorAbsTimes5(mapping[1].normalizedActivation))
        ELSE 1

\* a loop that starts again from 1 at every separator
RECURSIVE GodelProduct_SeparatorResets(_, _, _)
GodelProduct_SeparatorResets(godelNumber, tapeSegment, primeMappings) ==
    IF tapeSegment = <<>> THEN godelNumber
    ELSE LET prime == PrimeOf(Head(tapeSegment))
             next == IF Head(tapeSegment) = Bar THEN BigOne
                     ELSE IF prime # 0
                          THEN BigTimesPower(godelNumber, prime,
                                             Exponent(primeMappings, prime))
                          ELSE godelNumber
         IN  GodelProduct_SeparatorResets(next, Tail(tapeSegment), primeMappings)

RECURSIVE GodelProduct(_, _, _)
GodelProduct(godelNumber, tapeSegment, primeMappings) ==
    IF tapeSegment = <<>> THEN godelNumber
    ELSE LET prime == PrimeOf(Head(tapeSegment))
             next == IF prime # 0
                     THEN BigTimesPower(godelNumber, prime,
                                        Exponent(primeMappings, prime))
                     ELSE godelNumber
         IN  GodelProduct(next, Tail(tapeSegment), primeMappings)

EncodeAsGodel(tapeSegment, primeMappings) ==
    [tapeSegment |-> tapeSegment,
     godelNumber |-> GodelProduct(BigOne, tapeSegment, primeMappings),
     primeMappings |-> primeMappings,
     hierarchy |-> [size |-> StringLength(tapeSegment),
                    program |-> tapeSegment,
                    cycles |-> StringLength(tapeSegment) \div 7]]

(***************************************************************************)
(* calculateGodelNumber of the display layer (EmojiTapeDisplay.tsx)         *)
(***************************************************************************)
\* tape.replace(/\|/g, '')
StripSeparators(tape) == SelectSeq(tape, LAMBDA g : g # Bar)

\* a loop that multiplies by the square of the prime
RECURSIVE DisplayProduct_Squared(_, _)
DisplayProduct_Squared(godel, tape) ==
    IF tape = <<>> THEN godel
    ELSE LET prime == PrimeOf(Head(tape))
             next == IF prime # 0 THEN BigTimesPower(godel, prime, 2) ELSE godel
         IN  DisplayProduct_Squared(next, Tail(tape))

\* the loop of lines 170-175: godel *= prime for every glyph with a prime;
\* the display builds its primeMap from the same INTRINSIC_PRIMES
RECURSIVE DisplayProduct(_, _)
DisplayProduct(godel, tape) ==
    IF tape = <<>> THEN godel
    ELSE LET prime == PrimeOf(Head(tape))
             next == IF prime # 0 THEN BigTimesPower(godel, prime, 1) ELSE godel
         IN  DisplayProduct(next, Tail(tape))

CalculateGodelNumber(tape) == DisplayProduct(BigOne, StripSeparators(tape))

(***************************************************************************)
(* binary64 arithmetic, as calculatePrime2Variance uses it                  *)
(*                                                                         *)
(* A magnitude is a natural number of any size: the sequence of its digits  *)
(* to the base Binary64.radix, least significant digit first, without      *)
(* leading zeros (<<>> is 0).  A dyadic number [s, m, e] is s * m * 2^e    *)
(* with s = 1 or -1 and m a magnitude.  A finite binary64 number is a      *)
(* dyadic number with m odd and below 2^53, or 0 (m = <<>>, s = 1, e = 0). *)
(* Sums, differences and products are computed exactly and then rounded to *)
(* the nearest binary64 number, ties to even, as IEEE 754 prescribes.  The *)
(* exponent range is not modelled: the numbers of the model stay far from  *)
(* overflow and from subnormal numbers.                                    *)
(***************************************************************************)
Binary64 == [precision |-> 53, radix |-> 32768, radixBits |-> 15, guardBits |-> 60]

RECURSIVE MagNorm(_)
MagNorm(a) ==
    IF a = <<>> THEN a
    ELSE IF a[Len(a)] = 0 THEN MagNorm(SubSeq(a, 1, Len(a) - 1)) ELSE a

RECURSIVE MagAddCarry(_, _, _)
MagAddCarry(a, b, carry) ==
    IF a = <<>> /\ b = <<>> THEN (IF carry = 0 THEN <<>> ELSE <<carry>>)
    ELSE LET x == IF a = <<>> THEN 0 ELSE Head(a)
             y == IF b = <<>> THEN 0 ELSE Head(b)
             t == x + y + carry
         IN  <<t % Binary64.radix>>
                 \o MagAddCarry(IF a = <<>> THEN a ELSE Tail(a),
                                IF b = <<>> THEN b ELSE Tail(b),
                                t \div Binary64.radix)

MagAdd(a, b) == MagAddCarry(a, b, 0)

RECURSIVE MagSubBorrow(_, _, _)
MagSubBorrow(a, b, borrow) ==
    IF a = <<>> THEN <<>>
    ELSE LET y == IF b = <<>> THEN 0 ELSE Head(b)
             t == Binary64.radix + Head(a) - y - borrow
         IN  <<t % Binary64.radix>>
                 \o MagSubBorrow(Tail(a), IF b = <<>> THEN b ELSE Tail(b),
                                 IF t < Binary64.radix THEN 1 ELSE 0)

\* a - b for a >= b
MagSub(a, b) == MagNorm(MagSubBorrow(a, b, 0))

RECURSIVE MagCompareFrom(_, _, _)
MagCompareFrom(a, b, i) ==
    IF i = 0 THEN 0
    ELSE IF a[i] < b[i] THEN -1
    ELSE IF a[i] > b[i] THEN 1
    ELSE MagCompareFrom(a, b, i - 1)

\* -1, 0 or 1 as a < b, a = b or a > b
MagCompare(a, b) ==
    IF Len(a) < Len(b) THEN -1
    ELSE IF Len(a) > Len(b) THEN 1
    ELSE MagCompareFrom(a, b, Len(a))

\* a * k + carry for a digit k
RECURSIVE MagTimesDigit(_, _, _)
MagTimesDigit(a, k, carry) ==
    IF a = <<>> THEN (IF carry = 0 THEN <<>> ELSE <<carry>>)
    ELSE LET t == Head(a) * k + carry
         IN  <<t % Binary64.radix>> \o MagTimesDigit(Tail(a), k, t \div Binary64.radix)

RECURSIVE MagTimesFrom(_, _)
MagTimesFrom(a, b) ==
    IF b = <<>> THEN <<>>
    ELSE MagAdd(MagTimesDigit(a, Head(b), 0), <<0>> \o MagTimesFrom(a, Tail(b)))

MagTimes(a, b) == MagNorm(MagTimesFrom(a, b))

\* the digits a[1..i] divided by the digit k, rem being carried in from above
RECURSIVE MagDivFrom(_, _, _, _)
MagDivFrom(a, k, i, rem) ==
    IF i = 0 THEN [q |-> <<>>, r |-> rem]
    ELSE LET t == rem * Binary64.radix + a[i]
             low == MagDivFrom(a, k, i - 1, t % k)
         IN  [q |-> Append(low.q, t \div k), r |-> low.r]

\* quotient and remainder of a by a digit k > 0
MagDivDigit(a, k) ==
    LET d == MagDivFrom(a, k, Len(a), 0)
    IN  [q |-> MagNorm(d.q), r |-> d.r]

\* a * 2^n
MagShiftLeft(a, n) ==
    IF a = <<>> THEN a
    ELSE [i \in 1..(n \div Binary64.radixBits) |-> 0]
             \o MagTimesDigit(a, 2 ^ (n % Binary64.radixBits), 0)

\* floor(a / 2^n)
MagShiftRight(a, n) ==
    IF n \div Binary64.radixBits >= Len(a) THEN <<>>
    ELSE MagDivDigit(SubSeq(a, (n \div Binary64.radixBits) + 1, Len(a)),
                     2 ^ (n % Binary64.radixBits)).q

RECURSIVE BitLength(_)
BitLength(n) == IF n = 0 THEN 0 ELSE 1 + BitLength(n \div 2)

MagBitLength(a) ==
    IF a = <<>> THEN 0
    ELSE Binary64.radixBits * (Len(a) - 1) + BitLength(a[Len(a)])

F64Zero == [s |-> 1, m |-> <<>>, e |-> 0]

\* the same number with an odd m
RECURSIVE Canonical(_)
Canonical(x) ==
    IF x.m = <<>> THEN F64Zero
    ELSE IF x.m[1] % 2 = 0
         THEN Canonical([x EXCEPT !.m = MagDivDigit(x.m, 2).q, !.e = x.e + 1])
         ELSE x

\* the dyadic numbers x + y and x * y, exactly
DyadicAdd(x, y) ==
    LET e == Min(x.e, y.e)
        a == MagShiftLeft(x.m, x.e - e)
        b == MagShiftLeft(y.m, y.e - e)
        cmp == MagCompare(a, b)
    IN  IF x.s = y.s THEN [s |-> x.s, m |-> MagAdd(a, b), e |-> e]
        ELSE IF cmp = 0 THEN F64Zero
        ELSE IF cmp > 0 THEN [s |-> x.s, m |-> MagSub(a, b), e |-> e]
        ELSE [s |-> y.s, m |-> MagSub(b, a), e |-> e]

DyadicNeg(x) == IF x.m = <<>> THEN x ELSE [x EXCEPT !.s = -x.s]

DyadicTimes(x, y) ==
    IF x.m = <<>> \/ y.m = <<>> THEN F64Zero
    ELSE [s |-> x.s * y.s, m |-> MagTimes(x.m, y.m), e |-> x.e + y.e]

\* the binary64 number nearest to the dyadic number x, ties to even; sticky
\* says that the number to round is a little above x in magnitude (by less
\* than one unit of x.m)
F64Round(x, sticky) ==
    LET drop == MagBitLength(x.m) - Binary64.precision
    IN  IF drop <= 0 THEN Canonical(x)
        ELSE LET kept == MagShiftRight(x.m, drop)
                 rest == MagSub(x.m, MagShiftLeft(kept, drop))
                 cmp == MagCompare(rest, MagShiftLeft(<<1>>, drop - 1))
                 up == cmp > 0 \/ (cmp = 0 /\ (sticky \/ kept[1] % 2 = 1))
             IN  Canonical([s |-> x.s,
                            m |-> IF up THEN MagAdd(kept, <<1>>) ELSE kept,
                            e |-> x.e + drop])

\* the number n, for a whole number n of one digit
F64FromInt(n) ==
    IF n = 0 THEN F64Zero
    ELSE Canonical([s |-> IF n < 0 THEN -1 ELSE 1, m |-> <<AbsInt(n)>>, e |-> 0])

\* x + y, x - y and x * y on numbers
F64Add(x, y) == F64Round(DyadicAdd(x, y), FALSE)
F64Sub(x, y) == F64Round(DyadicAdd(x, DyadicNeg(y)), FALSE)
F64Times(x, y) == F64Round(DyadicTimes(x, y), FALSE)

\* x / n for a whole number n in 1..63: the quotient is computed with
\* Binary64.guardBits more bits than x has, the remainder makes it sticky
F64DivInt(x, n) ==
    LET d == MagDivDigit(MagShiftLeft(x.m, Binary64.guardBits), n)
    IN  F64Round([s |-> x.s, m |-> d.q, e |-> x.e - Binary64.guardBits], d.r # 0)

(***************************************************************************)
(* calculatePrime2Variance of the sampling interface (EmojiTapeDisplay.tsx) *)
(***************************************************************************)
\* activations.reduce((sum, val) => sum + val, sum)
RECURSIVE SumFromZero(_, _)
SumFromZero(sum, activations) ==
    IF activations = <<>> THEN sum
    ELSE SumFromZero(F64Add(sum, Head(activations)), Tail(activations))

\* Math.pow(x, 2), taken as the correctly rounded square
MathPow2(x) == F64Times(x, x)

\* activations.reduce((sum, val) => sum + Math.pow(val - mean, 2), sum)
RECURSIVE SumSquaredDeviations(_, _, _)
SumSquaredDeviations(sum, activations, mean) ==
    IF activations = <<>> THEN sum
    ELSE SumSquaredDeviations(F64Add(sum, MathPow2(F64Sub(Head(activations), mean))),
                              Tail(activations), mean)

\* lines 517-522, for a non-empty list of results
CalculatePrime2Variance(results) ==
    LET activations == [i \in 1..Len(results) |-> results[i].universalAnchor.prime2Activation]
        mean == F64DivInt(SumFromZero(F64Zero, activations), Len(activations))
        variance == F64DivInt(SumSquaredDeviations(F64Zero, activations, mean),
                              Len(activations))
    IN  variance

(***************************************************************************)
(* simulateTokenization and simulateLayerEmbeddings                         *)
(***************************************************************************)
\* the step without its subtraction: (hash << 5) + c
HashStep_ShiftOnly(hash, c) == (hash * 32) + c

\* ((hash << 5) - hash + c) & 0xffffffff.  A code point has at most two code
\* units, so every intermediate value stays below 2^31 and neither the shift
\* nor the mask wraps.
HashStep(hash, c) == (hash * 32) - hash + c

RECURSIVE HashUnits(_, _)
HashUnits(hash, units) ==
    IF units = <<>> THEN hash
    ELSE HashUnits(HashStep(hash, Head(units)), Tail(units))

TokenId(emoji) == AbsInt(HashUnits(0, CodeUnits(emoji))) % 50000

\* a tokenization that leaves the separators out
SimulateTokenization_SkipSeparators(tape) ==
    LET glyphs == SelectSeq(tape, LAMBDA g : g # Bar)
    IN  [ids |-> [i \in 1..Len(glyphs) |-> TokenId(glyphs[i])], strings |-> glyphs]

SimulateTokenization(tape) ==
    [ids |-> [i \in 1..Len(tape) |-> TokenId(tape[i])], strings |-> tape]

\* lines 51-60: no token string contains the marker [UNK]
TokenizedTape(modelName, tape) ==
    LET tokens == SimulateTokenization(tape)
    IN  [model |-> modelName,
         tokens |-> tokens.ids,
         tokenStrings |-> tokens.strings,
         metadata |-> [sequenceLength |-> Len(tokens.ids),
                       vocabSize |-> 50000,
                       unknownTokens |-> 0]]

SupportedModels ==
    {"Xenova/bert-base-uncased", "Xenova/gpt2", "Xenova/distilbert-base-uncased",
     "Xenova/all-MiniLM-L6-v2", "Xenova/sentence-transformers-all-MiniLM-L6-v2"}

\* modelName.includes('bert') ? 12 : modelName.includes('gpt') ? 12 : 6
LayerCount(modelName) ==
    IF modelName \in {"Xenova/bert-base-uncased", "Xenova/distilbert-base-uncased"}
    THEN 12
    ELSE IF modelName = "Xenova/gpt2" THEN 12 ELSE 6

\* lines 94-103; the layer vectors carry Math.random noise and the processing
\* time is wall-clock time: only the number of layers is kept
LLMEmbeddings(modelName, embedding) ==
    [model |-> modelName,
     pooledEmbedding |-> embedding,
     metadata |-> [totalLayers |-> LayerCount(modelName),
                   hiddenSize |-> Len(embedding)]]

(***************************************************************************)
(* The sampler: its two maps and the calls in flight                        *)
(***************************************************************************)
VARIABLES
    tokenizers,      \* this.tokenizers: model -> handle, 0 for no entry
    embedders,       \* this.embedders: model -> handle, 0 for no entry
    calls,           \* the invocations of the sampler's methods
    pipelineCalls,   \* history: how often pipeline() was called per model
    initCompleted,   \* history: an initializeModel(m) has completed successfully
    probe,           \* the arguments of a call of a pure method
    out,             \* and what it returned
    ui               \* the sampling interface: its state hooks, timers and runs

vars == <<tokenizers, embedders, calls, pipelineCalls, initCompleted, probe, out, ui>>
samplerVars == <<tokenizers, embedders, calls, pipelineCalls, initCompleted>>

Models == {"Xenova/bert-base-uncased", "Xenova/all-MiniLM-L6-v2"}
CallIds == 1..MaxCalls

Num(i) == Rat(i, 1)
Repeat(x, n) == [i \in 1..n |-> x]

\* what the embedding provider may return
ProviderVectors ==
    { Repeat(Num(1), 3),
      Repeat(Num(1), 10),
      Repeat(Num(1), 25),
      <<Num(-1), Num(-2), Num(0), Num(1), Num(20), Num(0), Num(-2), Num(1), Num(0),
        Num(-1), Num(5)>> }

Tapes == {EMOJI_BLOCK_TAPE, <<"tophat", Bar, Star>>}

NoProbe ==
    [op |-> "none", embedding |-> <<>>, targetDims |-> 0, tapeSegment |-> <<>>,
     primeMappings |-> <<>>, results |-> <<>>]

NoCall ==
    [op |-> "none", model |-> "", tape |-> <<>>, pc |-> "idle", error |-> "",
     cachedAtCall |-> FALSE, handle |-> 0, steps |-> <<>>, tokenization |-> <<>>,
     result |-> <<>>, objects |-> <<>>]

\* the models offered by the sampling interface, in the order of the list
AVAILABLE_MODELS ==
    <<"Xenova/bert-base-uncased", "Xenova/distilbert-base-uncased",
      "Xenova/all-MiniLM-L6-v2">>

\* a run of sampleModel started by "Sample All Models": <<click, index in the list>>
Runs == (1..MaxClicks) \X DOMAIN AVAILABLE_MODELS

NoRun == [pc |-> "unscheduled", due |-> 0, outcome |-> ""]

\* the interface as mounted: the initial values of the state hooks, no timer
\* set; now is the time in milliseconds
NoUI ==
    [now |-> 0, clicks |-> 0, isLoading |-> FALSE, progress |-> 0, currentPhase |-> "",
     results |-> <<>>, runs |-> [r \in Runs |-> NoRun]]

\* calls are issued in the order of their ids
CanIssue(c) == calls[c].pc = "idle" /\ \A b \in 1..(c - 1) : calls[b].pc # "idle"

NewCall(op, modelName, tape) ==
    [NoCall EXCEPT !.op = op, !.model = modelName, !.tape = tape,
                   !.cachedAtCall = initCompleted[modelName]]

Init ==
    /\ tokenizers = [m \in Models |-> 0]
    /\ embedders = [m \in Models |-> 0]
    /\ calls = [c \in CallIds |-> NoCall]
    /\ pipelineCalls = [m \in Models |-> 0]
    /\ initCompleted = [m \in Models |-> FALSE]
    /\ probe = NoProbe
    /\ out = <<>>
    /\ ui = NoUI

(***************************************************************************)
(* The methods of LLMEmojiSampler, one action per run between two awaits    *)
(***************************************************************************)
\* tokenizeTape testing whether any tokenizer is cached instead of this model's
TokenizeTapeBegins_AnyModel(call) ==
    IF \A m \in Models : tokenizers[m] = 0
    THEN [call EXCEPT !.pc = "failed", !.error = "ModelNotInitialized"]
    ELSE [call EXCEPT !.pc = "tokenizing"]

\* tokenizeTape up to its first await (lines 41-49)
TokenizeTapeBegins(call) ==
    IF tokenizers[call.model] = 0
    THEN [call EXCEPT !.pc = "failed", !.error = "ModelNotInitialized"]
    ELSE [call EXCEPT !.pc = "tokenizing"]

\* embedTape up to its first await, the call of the provider (lines 71-83)
EmbedTapeBegins(call) ==
    IF embedders[call.model] = 0
    THEN [call EXCEPT !.pc = "failed", !.error = "ModelNotInitialized"]
    ELSE [call EXCEPT !.pc = "embedding", !.handle = embedders[call.model]]

\* sampleTape from the return of embedTape to its own return (lines 187-209)
SamplingResult(call, embeddings) ==
    LET primeMapping == MapEmbeddingsToPrimes(embeddings)
        godelEncoding == EncodeAsGodel(call.tape, primeMapping)
        prime2Mapping == FindMapping(primeMapping, 2)
        universalAnchor ==
            [prime2Activation |->
                 IF prime2Mapping # <<>> THEN OrZero(prime2Mapping[1].activation)
                 ELSE Zero,
             consistencyScore |->
                 IF prime2Mapping # <<>>
                 THEN AbsTanh(prime2Mapping[1].normalizedActivation)
                 ELSE AbsTanh(Tanh(Zero)),
             semanticDrift |-> Zero]
    IN  [tape |-> call.tape,
         tokenization |-> call.tokenization[1],
         embeddings |-> embeddings,
         primeMapping |-> primeMapping,
         godelEncoding |-> godelEncoding,
         universalAnchor |-> universalAnchor]

\* Object identity.  Every array and object literal that a call evaluates
\* creates one object, named <<call, line of the literal>>; a parameter and a
\* shorthand property hold the object they were given, not a copy of it.

\* the array created by INTRINSIC_PRIMES.map (line 120), sorted in place and
\* returned (lines 131-137)
MapEmbeddingsToPrimesObject(c) == <<c, 120>>

\* lines 157-166: the encoding and its hierarchy are created here, the
\* property primeMappings is the parameter
EncodeAsGodelObjects(c, primeMappings) ==
    [self |-> <<c, 157>>, primeMappings |-> primeMappings, hierarchy |-> <<c, 161>>]

\* lines 181-209: the objects of a sampling result and of its parts
SampleTapeObjects(c) ==
    LET tokenization == <<c, 51>>
        embeddings == <<c, 94>>
        primeMapping == MapEmbeddingsToPrimesObject(c)
        godelEncoding == EncodeAsGodelObjects(c, primeMapping)
        universalAnchor == <<c, 195>>
    IN  [self |-> <<c, 201>>,
         tokenization |-> tokenization,
         embeddings |-> embeddings,
         primeMapping |-> primeMapping,
         godelEncoding |-> godelEncoding,
         universalAnchor |-> universalAnchor]

\* what tokenizeTape and sampleTape return, tabulated over the models, tapes
\* and provider vectors of the model
TokenizeTapeReturns ==
    [m \in Models |-> [tape \in Tapes |-> TokenizedTape(m, tape)]]

SampleTapeReturns ==
    [m \in Models |-> [tape \in Tapes |-> [embedding \in ProviderVectors |->
        SamplingResult([tape |-> tape, tokenization |-> <<TokenizeTapeReturns[m][tape]>>],
                       LLMEmbeddings(m, embedding))]]]

\* initializeModel(modelName) is called: pipeline() is called at once
InitializeModel(c, modelName) ==
    /\ CanIssue(c)
    /\ calls' = [calls EXCEPT ![c] =
                    [NewCall("initializeModel", modelName, <<>>) EXCEPT !.pc = "loading"]]
    /\ pipelineCalls' = [pipelineCalls EXCEPT ![modelName] = @ + 1]
    /\ UNCHANGED <<tokenizers, embedders, initCompleted, probe, out, ui>>

\* tokenizeTape(modelName, tape) is called
TokenizeTape(c, modelName, tape) ==
    /\ CanIssue(c)
    /\ calls' = [calls EXCEPT ![c] =
                    TokenizeTapeBegins(NewCall("tokenizeTape", modelName, tape))]
    /\ UNCHANGED <<tokenizers, embedders, pipelineCalls, initCompleted, probe, out, ui>>

\* embedTape(modelName, tape) is called
EmbedTape(c, modelName, tape) ==
    /\ CanIssue(c)
    /\ calls' = [calls EXCEPT ![c] =
                    EmbedTapeBegins(NewCall("embedTape", modelName, tape))]
    /\ UNCHANGED <<tokenizers, embedders, pipelineCalls, initCompleted, probe, out, ui>>

\* the test of line 177 with its negations dropped
NeedsInitialization_Inverted(modelName) ==
    tokenizers[modelName] # 0 /\ embedders[modelName] # 0

\* line 177: does sampleTape call initializeModel
NeedsInitialization(modelName) ==
    tokenizers[modelName] = 0 \/ embedders[modelName] = 0

\* sampleTape(modelName, tape) is called (lines 176-182)
SampleTape(c, modelName, tape) ==
    /\ CanIssue(c)
    /\ IF NeedsInitialization(modelName)
       THEN /\ calls' = [calls EXCEPT ![c] =
                           [NewCall("sampleTape", modelName, tape) EXCEPT !.pc = "loading"]]
            /\ pipelineCalls' = [pipelineCalls EXCEPT ![modelName] = @ + 1]
       ELSE /\ calls' = [calls EXCEPT ![c] =
                           TokenizeTapeBegins(
                               [NewCall("sampleTape", modelName, tape) EXCEPT
                                    !.steps = <<"ensureInitialized">>])]
            /\ UNCHANGED pipelineCalls
    /\ UNCHANGED <<tokenizers, embedders, initCompleted, probe, out, ui>>

\* an initialization that caches the handle as the embedder only
PipelineResolves_EmbedderOnly(c) ==
    /\ calls[c].pc = "loading"
    /\ embedders' = [embedders EXCEPT ![calls[c].model] = c]
    /\ initCompleted' = [initCompleted EXCEPT ![calls[c].model] = TRUE]
    /\ calls' = [calls EXCEPT ![c] =
                    IF calls[c].op = "initializeModel"
                    THEN [@ EXCEPT !.pc = "done", !.handle = c, !.result = <<"void">>]
                    ELSE [@ EXCEPT !.pc = "initialized", !.handle = c]]
    /\ UNCHANGED <<tokenizers, pipelineCalls, probe, out, ui>>

\* pipeline() resolves with a new handle, named after the call that loaded it
\* (lines 23-30)
PipelineResolves(c) ==
    /\ calls[c].pc = "loading"
    /\ embedders' = [embedders EXCEPT ![calls[c].model] = c]
    /\ tokenizers' = [tokenizers EXCEPT ![calls[c].model] = c]
    /\ initCompleted' = [initCompleted EXCEPT ![calls[c].model] = TRUE]
    /\ calls' = [calls EXCEPT ![c] =
                    IF calls[c].op = "initializeModel"
                    THEN [@ EXCEPT !.pc = "done", !.handle = c, !.result = <<"void">>]
                    ELSE [@ EXCEPT !.pc = "initialized", !.handle = c]]
    /\ UNCHANGED <<pipelineCalls, probe, out, ui>>

\* a failure that also drops the model's entries from the two maps
PipelineRejects_ClearsCache(c) ==
    /\ calls[c].pc = "loading"
    /\ calls' = [calls EXCEPT ![c] = [@ EXCEPT !.pc = "failed", !.error = "ModelInitError"]]
    /\ tokenizers' = [tokenizers EXCEPT ![calls[c].model] = 0]
    /\ embedders' = [embedders EXCEPT ![calls[c].model] = 0]
    /\ UNCHANGED <<pipelineCalls, initCompleted, probe, out, ui>>

\* pipeline() rejects: the error is logged and thrown again (lines 31-34)
PipelineRejects(c) ==
    /\ calls[c].pc = "loading"
    /\ calls' = [calls EXCEPT ![c] = [@ EXCEPT !.pc = "failed", !.error = "ModelInitError"]]
    /\ UNCHANGED <<tokenizers, embedders, pipelineCalls, initCompleted, probe, out, ui>>

\* sampleTape resumes after await this.initializeModel (lines 178-182)
SampleTapeResumes(c) ==
    /\ calls[c].pc = "initialized"
    /\ calls' = [calls EXCEPT ![c] =
                    TokenizeTapeBegins([@ EXCEPT !.steps = <<"ensureInitialized">>])]
    /\ UNCHANGED <<tokenizers, embedders, pipelineCalls, initCompleted, probe, out, ui>>

\* simulateTokenization resolves: tokenizeTape returns, and sampleTape goes on
\* into embedTape (lines 49-60, 182-185)
TokenizationResolves(c) ==
    /\ calls[c].pc = "tokenizing"
    /\ LET tokenization == TokenizeTapeReturns[calls[c].model][calls[c].tape]
       IN  calls' = [calls EXCEPT ![c] =
                        IF calls[c].op = "tokenizeTape"
                        THEN [@ EXCEPT !.pc = "done", !.result = <<tokenization>>]
                        ELSE EmbedTapeBegins(
                                 [@ EXCEPT !.tokenization = <<tokenization>>,
                                           !.steps = Append(@, "tokenize")])]
    /\ UNCHANGED <<tokenizers, embedders, pipelineCalls, initCompleted, probe, out, ui>>

\* the provider resolves with a vector: embedTape returns, and sampleTape runs
\* to its end (lines 85-103, 185-209)
EmbedderResolves(c, embedding) ==
    /\ calls[c].pc = "embedding"
    /\ LET embeddings == LLMEmbeddings(calls[c].model, embedding)
       IN  calls' = [calls EXCEPT ![c] =
                        IF calls[c].op = "embedTape"
                        THEN [@ EXCEPT !.pc = "done", !.result = <<embeddings>>]
                        ELSE [@ EXCEPT !.pc = "done",
                                       !.steps = @ \o <<"embed", "map", "godel">>,
                                       !.objects = <<SampleTapeObjects(c)>>,
                                       !.result =
                                           <<SampleTapeReturns[calls[c].model][calls[c].tape][embedding]>>]]
    /\ UNCHANGED <<tokenizers, embedders, pipelineCalls, initCompleted, probe, out, ui>>

\* the provider's error swallowed: sampleTape returns what it has so far
EmbedderRejects_Swallowed(c) ==
    /\ calls[c].pc = "embedding"
    /\ calls' = [calls EXCEPT ![c] =
                    [@ EXCEPT !.pc = "done",
                              !.result = <<[tape |-> calls[c].tape,
                                            tokenization |-> calls[c].tokenization]>>]]
    /\ UNCHANGED <<tokenizers, embedders, pipelineCalls, initCompleted, probe, out, ui>>

\* the provider rejects: the error is logged and thrown again (lines 104-107)
EmbedderRejects(c) ==
    /\ calls[c].pc = "embedding"
    /\ calls' = [calls EXCEPT ![c] =
                    [@ EXCEPT !.pc = "failed", !.error = "ProviderEmbeddingError"]]
    /\ UNCHANGED <<tokenizers, embedders, pipelineCalls, initCompleted, probe, out, ui>>

Next ==
    \/ \E c \in CallIds, m \in Models : InitializeModel(c, m)
    \/ \E c \in CallIds, m \in Models, tape \in Tapes : TokenizeTape(c, m, tape)
    \/ \E c \in CallIds, m \in Models : EmbedTape(c, m, EMOJI_BLOCK_TAPE)
    \/ \E c \in CallIds, m \in Models, tape \in Tapes : SampleTape(c, m, tape)
    \/ \E c \in CallIds : PipelineResolves(c)
    \/ \E c \in CallIds : PipelineRejects(c)
    \/ \E c \in CallIds : SampleTapeResumes(c)
    \/ \E c \in CallIds : TokenizationResolves(c)
    \/ \E c \in CallIds, embedding \in ProviderVectors : EmbedderResolves(c, embedding)
    \/ \E c \in CallIds : EmbedderRejects(c)

Spec == Init /\ [][Next]_vars

(***************************************************************************)
(* The pure methods, called on their own: the arguments are drawn in the    *)
(* initial state and one action per method applies it                       *)
(***************************************************************************)
\* the components of the vectors
Vals == {Num(-2), Num(0), Num(1)}

VectorsUpTo(n) == UNION {[1..k -> Vals] : k \in 0..n}

\* the vectors with at most MaxNonZero components other than 0
SparseVectorsUpTo(n) ==
    {v \in VectorsUpTo(n) : Cardinality({i \in DOMAIN v : v[i] # Zero}) <= MaxNonZero}

\* the glyphs of the segments: three of the registry, the separator and a
\* glyph outside the registry
SegmentGlyphs == {"tophat", "die", "planet", Bar, Star}

Segments == UNION {[1..k -> SegmentGlyphs] : k \in 0..MaxSegLen}

\* ten activations covering every exponent: 0, 1/10, 1/4, -1/2, 1, -5/4, 20,
\* -3/4, 2, -25, rotated by shift
BaseActivations ==
    <<Num(0), Rat(1, 10), Rat(1, 4), Rat(-1, 2), Num(1), Rat(-5, 4), Num(20),
      Rat(-3, 4), Num(2), Num(-25)>>

Rotated(shift) ==
    [i \in 1..Len(BaseActivations) |->
        BaseActivations[((i + shift - 1) % Len(BaseActivations)) + 1]]

ActivationSets ==
    {RankedMappings(Rotated(shift)) : shift \in 0..(Len(BaseActivations) - 1)}

ReduceProbes ==
    {[NoProbe EXCEPT !.op = "reduceToPrimeDimensions", !.embedding = v, !.targetDims = k] :
        v \in VectorsUpTo(MaxReduceLen), k \in 1..MaxDims}

MapProbes ==
    {[NoProbe EXCEPT !.op = "mapEmbeddingsToPrimes", !.embedding = v] :
        v \in SparseVectorsUpTo(MaxVecLen)}

GodelProbes ==
    {[NoProbe EXCEPT !.op = "encodeAsGodel", !.tapeSegment = seg, !.primeMappings = pm] :
        seg \in Segments, pm \in ActivationSets}

\* the display's variant is given a tape; the activations are those the
\* encoder would be given for the same tape
DisplayProbes ==
    {[NoProbe EXCEPT !.op = "calculateGodelNumber", !.tapeSegment = seg,
                     !.primeMappings = pm] :
        seg \in Segments, pm \in ActivationSets}

\* the prime2Activation of a result, as binary64 numbers: 0, 1/10, -1/2, 1
AnchorActivations ==
    {F64Zero, F64DivInt(F64FromInt(1), 10), F64DivInt(F64FromInt(-1), 2), F64FromInt(1)}

\* of a sampling result, calculatePrime2Variance reads this field only
ResultWith(activation) == [universalAnchor |-> [prime2Activation |-> activation]]

\* the variance is displayed for one or more results
VarianceProbes ==
    {[NoProbe EXCEPT !.op = "calculatePrime2Variance", !.results = r] :
        r \in UNION {[1..n -> {ResultWith(v) : v \in AnchorActivations}] :
                        n \in 1..MaxResults}}

InitPure ==
    /\ tokenizers = [m \in Models |-> 0]
    /\ embedders = [m \in Models |-> 0]
    /\ calls = [c \in CallIds |-> NoCall]
    /\ pipelineCalls = [m \in Models |-> 0]
    /\ initCompleted = [m \in Models |-> FALSE]
    /\ probe \in ReduceProbes \cup MapProbes \cup GodelProbes \cup DisplayProbes
                   \cup VarianceProbes
    /\ out = <<>>
    /\ ui = NoUI

ApplyReduce ==
    /\ probe.op = "reduceToPrimeDimensions"
    /\ out = <<>>
    /\ out' = <<ReduceToPrimeDimensions(probe.embedding, probe.targetDims)>>
    /\ UNCHANGED <<samplerVars, probe, ui>>

ApplyMap ==
    /\ probe.op = "mapEmbeddingsToPrimes"
    /\ out = <<>>
    /\ out' = <<MapEmbeddingsToPrimes(
                    LLMEmbeddings("Xenova/all-MiniLM-L6-v2", probe.embedding))>>
    /\ UNCHANGED <<samplerVars, probe, ui>>

ApplyGodel ==
    /\ probe.op = "encodeAsGodel"
    /\ out = <<>>
    /\ out' = <<EncodeAsGodel(probe.tapeSegment, probe.primeMappings)>>
    /\ UNCHANGED <<samplerVars, probe, ui>>

ApplyCalculateGodel ==
    /\ probe.op = "calculateGodelNumber"
    /\ out = <<>>
    /\ out' = <<CalculateGodelNumber(probe.tapeSegment)>>
    /\ UNCHANGED <<samplerVars, probe, ui>>

ApplyVariance ==
    /\ probe.op = "calculatePrime2Variance"
    /\ out = <<>>
    /\ out' = <<CalculatePrime2Variance(probe.results)>>
    /\ UNCHANGED <<samplerVars, probe, ui>>

NextPure ==
    ApplyReduce \/ ApplyMap \/ ApplyGodel \/ ApplyCalculateGodel \/ ApplyVariance

SpecPure == InitPure /\ [][NextPure]_vars

(***************************************************************************)
(* The sampling interface (EmojiTapeDisplay.tsx): "Sample All Models"       *)
(*                                                                         *)
(* Time is counted in milliseconds and passes in steps of the program's     *)
(* shortest delay.  A timer fires when it is due: time does not advance     *)
(* past a timer that is due.  A promise of the sampler (the loading of a    *)
(* model, the embedding of the tape) settles after any time.  Each action   *)
(* is one run of the event loop: a click handler, or a run of sampleModel   *)
(* between two awaits.                                                      *)
(***************************************************************************)
\* setTimeout(resolve, 500) (lines 237, 241)
ProgressDelay == 500

SampleAllStep == 2000

\* setTimeout(..., index * 2000), index counted from 0 (line 335)
SampleAllDelay(index) == (index - 1) * SampleAllStep

ModelOfRun(r) == AVAILABLE_MODELS[r[2]]

OfferedModels == {AVAILABLE_MODELS[i] : i \in DOMAIN AVAILABLE_MODELS}

\* a handle loaded by a run of the interface is named after the run
InitUI ==
    /\ tokenizers = [m \in OfferedModels |-> 0]
    /\ embedders = [m \in OfferedModels |-> 0]
    /\ calls = [c \in CallIds |-> NoCall]
    /\ pipelineCalls = [m \in OfferedModels |-> 0]
    /\ initCompleted = [m \in OfferedModels |-> FALSE]
    /\ probe = NoProbe
    /\ out = <<>>
    /\ ui = NoUI

\* the button "Sample All Models" is clicked (lines 332-338): one timer per
\* model of the list; the button is disabled while isLoading
ClickSampleAll ==
    /\ ~ui.isLoading
    /\ ui.clicks < MaxClicks
    /\ ui' = [ui EXCEPT
                 !.clicks = @ + 1,
                 !.runs = [r \in Runs |->
                              IF r[1] = ui.clicks + 1
                              THEN [NoRun EXCEPT !.pc = "scheduled",
                                                 !.due = ui.now + SampleAllDelay(r[2])]
                              ELSE @[r]]]
    /\ UNCHANGED <<samplerVars, probe, out>>

\* the timer of a run fires: sampleModel runs up to its first await, the call
\* of initializeModel, which calls pipeline() (lines 226-232)
SampleModelBegins(r) ==
    /\ ui.runs[r].pc = "scheduled"
    /\ ui.runs[r].due <= ui.now
    /\ ui' = [ui EXCEPT !.isLoading = TRUE, !.progress = 0,
                        !.currentPhase = "Initializing model",
                        !.runs[r].pc = "initializing"]
    /\ pipelineCalls' = [pipelineCalls EXCEPT ![ModelOfRun(r)] = @ + 1]
    /\ UNCHANGED <<tokenizers, embedders, calls, initCompleted, probe, out>>

\* the finally block of sampleModel (lines 265-269)
Finally(state, r, outcome) ==
    [state EXCEPT !.isLoading = FALSE, !.progress = 0, !.currentPhase = "",
                  !.runs[r].pc = "finished", !.runs[r].outcome = outcome]

\* initializeModel resolves: the handle is cached (llm-sampler.ts lines
\* 27-28) and sampleModel runs on to the first delay (lines 233-237)
InitializeModelResolves(r) ==
    /\ ui.runs[r].pc = "initializing"
    /\ tokenizers' = [tokenizers EXCEPT ![ModelOfRun(r)] = r]
    /\ embedders' = [embedders EXCEPT ![ModelOfRun(r)] = r]
    /\ initCompleted' = [initCompleted EXCEPT ![ModelOfRun(r)] = TRUE]
    /\ ui' = [ui EXCEPT !.progress = 25, !.currentPhase = "Tokenizing emoji tape",
                        !.runs[r].pc = "delay1",
                        !.runs[r].due = ui.now + ProgressDelay]
    /\ UNCHANGED <<calls, pipelineCalls, probe, out>>

\* initializeModel rejects: catch and finally (lines 258-269)
InitializeModelRejects(r) ==
    /\ ui.runs[r].pc = "initializing"
    /\ ui' = Finally(ui, r, "Sampling Failed")
    /\ UNCHANGED <<samplerVars, probe, out>>

\* the first delay is over (lines 238-241)
FirstDelayElapses(r) ==
    /\ ui.runs[r].pc = "delay1"
    /\ ui.runs[r].due <= ui.now
    /\ ui' = [ui EXCEPT !.progress = 50, !.currentPhase = "Generating embeddings",
                        !.runs[r].pc = "delay2",
                        !.runs[r].due = ui.now + ProgressDelay]
    /\ UNCHANGED <<samplerVars, probe, out>>

\* the second delay is over: sampleTape is called (lines 242-246); the model
\* was initialized at line 232 and no entry is ever removed, so sampleTape
\* does not initialize again
SecondDelayElapses(r) ==
    /\ ui.runs[r].pc = "delay2"
    /\ ui.runs[r].due <= ui.now
    /\ ui' = [ui EXCEPT !.progress = 75,
                        !.currentPhase = "Mapping to intrinsic primes",
                        !.runs[r].pc = "sampling"]
    /\ UNCHANGED <<samplerVars, probe, out>>

\* sampleTape resolves: the result is put in front of the results, then the
\* finally block (lines 247-256, 265-269); the result is named after its run
SampleTapeResolvesInRun(r) ==
    /\ ui.runs[r].pc = "sampling"
    /\ ui' = [Finally(ui, r, "Model Sampled Successfully") EXCEPT
                 !.results = <<[model |-> ModelOfRun(r), run |-> r]>> \o @]
    /\ UNCHANGED <<samplerVars, probe, out>>

\* sampleTape rejects: catch and finally (lines 258-269)
SampleTapeRejectsInRun(r) ==
    /\ ui.runs[r].pc = "sampling"
    /\ ui' = Finally(ui, r, "Sampling Failed")
    /\ UNCHANGED <<samplerVars, probe, out>>

\* time passes while no timer is due
Tick ==
    /\ ui.now < MaxTicks * ProgressDelay
    /\ \A r \in Runs : ui.runs[r].pc \in {"scheduled", "delay1", "delay2"}
                          => ui.runs[r].due > ui.now
    /\ ui' = [ui EXCEPT !.now = @ + ProgressDelay]
    /\ UNCHANGED <<samplerVars, probe, out>>

NextUI ==
    \/ ClickSampleAll
    \/ \E r \in Runs : SampleModelBegins(r)
    \/ \E r \in Runs : InitializeModelResolves(r)
    \/ \E r \in Runs : InitializeModelRejects(r)
    \/ \E r \in Runs : FirstDelayElapses(r)
    \/ \E r \in Runs : SecondDelayElapses(r)
    \/ \E r \in Runs : SampleTapeResolvesInRun(r)
    \/ \E r \in Runs : SampleTapeRejectsInRun(r)
    \/ Tick

SpecUI == InitUI /\ [][NextUI]_vars

(***************************************************************************)
(* Initialization: concurrent and repeated requests                         *)
(***************************************************************************)
Initializing(c) == calls[c].op \in {"initializeModel", "sampleTape"}

\* C1: concurrent requests for the same uninitialized model do not start the
\* provider's model loading twice: no two calls have pipeline() in flight for
\* the same model at once, and any two callers that asked while the model was
\* not cached end up with the same handle.
C1_NoDuplicateInitialization ==
    \A c, b \in CallIds :
        (c # b /\ Initializing(c) /\ Initializing(b) /\ calls[c].model = calls[b].model)
        => /\ ~(calls[c].pc = "loading" /\ calls[b].pc = "loading")
           /\ (~calls[c].cachedAtCall /\ ~calls[b].cachedAtCall
               /\ calls[c].handle # 0 /\ calls[b].handle # 0)
              => calls[c].handle = calls[b].handle

\* C2: once initializeModel(m) has completed successfully, a later
\* initializeModel(m) or sampleTape(m) never has pipeline() in flight for m
\* and never replaces the cached handle of m by one of its own.
C2_InitializationIdempotent ==
    \A c \in CallIds :
        (Initializing(c) /\ calls[c].cachedAtCall)
        => /\ calls[c].pc # "loading"
           /\ embedders[calls[c].model] # c
           /\ tokenizers[calls[c].model] # c

(***************************************************************************)
(* tokenizeTape and embedTape before initialization                         *)
(***************************************************************************)
\* C3: a tokenizeTape(m) or embedTape(m) called when no initializeModel(m)
\* has completed fails at once with the not-initialized error, whatever other
\* models are initialized; the provider is not called and the two maps and
\* the count of pipeline() calls are unchanged.
C3_FailsBeforeInitialization ==
    [][\A c \in CallIds :
          (/\ calls[c].pc = "idle"
           /\ calls'[c].pc # "idle"
           /\ calls'[c].op \in {"tokenizeTape", "embedTape"}
           /\ ~initCompleted[calls'[c].model])
          => /\ calls'[c].pc = "failed"
             /\ calls'[c].error = "ModelNotInitialized"
             /\ calls'[c].result = <<>>
             /\ UNCHANGED <<tokenizers, embedders, pipelineCalls>>]_vars

\* a tokenizeTape or embedTape has failed as not initialized while another
\* model is initialized
C3_Witness ==
    \E c \in CallIds :
        /\ calls[c].op \in {"tokenizeTape", "embedTape"}
        /\ calls[c].error = "ModelNotInitialized"
        /\ ~initCompleted[calls[c].model]
        /\ \E m \in Models : m # calls[c].model /\ initCompleted[m]

(***************************************************************************)
(* sampleTape: all or nothing, and the order of its steps                   *)
(***************************************************************************)
StepOrder == <<"ensureInitialized", "tokenize", "embed", "map", "godel">>

IsPrefix(s, t) == Len(s) <= Len(t) /\ s = SubSeq(t, 1, Len(s))

SamplingResultFields ==
    {"tape", "tokenization", "embeddings", "primeMapping", "godelEncoding",
     "universalAnchor"}

\* every field of a sampling result holds a value computed for this call
Populated(call, r) ==
    /\ DOMAIN r = SamplingResultFields
    /\ r.tape = call.tape
    /\ r.tokenization.model = call.model
    /\ Len(r.tokenization.tokens) = Len(call.tape)
    /\ r.embeddings.model = call.model
    /\ r.embeddings.pooledEmbedding \in ProviderVectors
    /\ Len(r.primeMapping) = Len(INTRINSIC_PRIMES)
    /\ \A i \in 1..Len(r.primeMapping) : ~IsNaN(r.primeMapping[i].activation)
    /\ r.godelEncoding.tapeSegment = call.tape
    /\ r.godelEncoding.godelNumber \in [RegistryPrimes -> Nat]
    /\ ~IsNaN(r.universalAnchor.prime2Activation)

\* C4: a sampleTape call that failed carries the error of the step that
\* failed and no result; a call returns a result only when every step has
\* completed, and then every field of the result is populated.
C4_AllOrNothing ==
    \A c \in CallIds :
        calls[c].op = "sampleTape"
        => /\ calls[c].pc # "done" => calls[c].result = <<>>
           /\ calls[c].pc = "failed"
              => \/ calls[c].error = "ModelInitError" /\ calls[c].steps = <<>>
                 \/ /\ calls[c].error = "ProviderEmbeddingError"
                    /\ calls[c].steps = <<"ensureInitialized", "tokenize">>
           /\ calls[c].pc = "done"
              => /\ calls[c].error = ""
                 /\ calls[c].steps = StepOrder
                 /\ Len(calls[c].result) = 1
                 /\ Populated(calls[c], calls[c].result[1])

\* one sampleTape has failed in the provider's embedding call and another has
\* returned a result
C4_Witness ==
    \E c, b \in CallIds :
        /\ calls[c].op = "sampleTape" /\ calls[c].error = "ProviderEmbeddingError"
        /\ calls[b].op = "sampleTape" /\ calls[b].pc = "done"

\* C5: the steps of a sampleTape call complete in the order ensure
\* initialized, tokenize, embed, map, Goedel-encode, each starting after the
\* one before has completed; the provider's embedding call for m is in flight
\* only after an initialization of m has completed.
C5_StepOrder ==
    \A c \in CallIds :
        /\ calls[c].pc = "embedding"
           => initCompleted[calls[c].model] /\ embedders[calls[c].model] # 0
        /\ calls[c].op = "sampleTape"
           => /\ IsPrefix(calls[c].steps, StepOrder)
              /\ calls[c].steps # <<>> => initCompleted[calls[c].model]
              /\ calls[c].pc \in {"loading", "initialized"} => calls[c].steps = <<>>
              /\ calls[c].pc = "tokenizing" => calls[c].steps = <<"ensureInitialized">>
              /\ calls[c].pc = "embedding"
                 => calls[c].steps = <<"ensureInitialized", "tokenize">>
              /\ calls[c].pc = "done" => calls[c].steps = StepOrder

\* a sampleTape that had to initialize its model has the provider's embedding
\* call in flight
C5_Witness ==
    \E c \in CallIds :
        /\ calls[c].op = "sampleTape"
        /\ ~calls[c].cachedAtCall
        /\ calls[c].pc = "embedding"

\* C6: a pooled vector shorter than the ten reduction targets makes the
\* reduction fail, so sampleTape returns no result for such a vector.
C6_InsufficientDimensionsRaised ==
    \A c \in CallIds :
        (calls[c].op = "sampleTape" /\ calls[c].result # <<>>)
        => Len(calls[c].result[1].embeddings.pooledEmbedding) >= Len(INTRINSIC_PRIMES)

(***************************************************************************)
(* reduceToPrimeDimensions, mapEmbeddingsToPrimes and encodeAsGodel         *)
(***************************************************************************)
Applied(op) == probe.op = op /\ out # <<>>

\* the sum of the numerators of v[lo..hi]; the components are whole numbers
RECURSIVE SumInts(_, _, _)
SumInts(v, lo, hi) == IF lo > hi THEN 0 ELSE v[lo].n + SumInts(v, lo + 1, hi)

\* v with its elements after the first n replaced by w
WithTail(v, n, w) == [i \in 1..Len(v) |-> IF i <= n THEN v[i] ELSE w]

\* C9: for a vector of at least k elements, reduce(vector, k) has exactly k
\* values, value i being the mean of the i-th run of c = floor(len/k)
\* elements; the len mod k last elements do not influence the result.
C9_ChunkMeans ==
    (Applied("reduceToPrimeDimensions") /\ Len(probe.embedding) >= probe.targetDims)
    => LET v == probe.embedding
           k == probe.targetDims
           c == Len(v) \div k
           r == out[1]
       IN  /\ DOMAIN r = 1..k
           /\ \A i \in 1..k :
                 /\ ~IsNaN(r[i])
                 /\ r[i].n * c = SumInts(v, (i - 1) * c + 1, i * c) * r[i].d
           /\ \A w \in Vals : ReduceToPrimeDimensions(WithTail(v, k * c, w), k) = r
           /\ ReduceToPrimeDimensions(SubSeq(v, 1, k * c), k) = r

\* a reduction with chunks of two or more elements, a remainder that is
\* dropped and a mean that is not a whole number
C9_Witness ==
    /\ Applied("reduceToPrimeDimensions")
    /\ Len(probe.embedding) \div probe.targetDims >= 2
    /\ Len(probe.embedding) % probe.targetDims # 0
    /\ \E i \in DOMAIN out[1] : out[1][i].d > 1

RegistryIndex(prime) ==
    CHOOSE i \in 1..Len(INTRINSIC_PRIMES) : INTRINSIC_PRIMES[i].prime = prime

AbsNormalized(mapping) == AbsTanh(mapping.normalizedActivation)

\* C7: mapEmbeddingsToPrimes returns exactly 10 entries, one per registry
\* prime, with rank equal to the 1-based position, and the first entry has
\* the greatest abs(normalizedActivation).
C7_TenRankedEntries ==
    Applied("mapEmbeddingsToPrimes")
    => LET r == out[1]
       IN  /\ Len(r) = 10
           /\ {r[i].prime : i \in 1..Len(r)} = {2, 3, 5, 7, 11, 13, 17, 19, 23, 29}
           /\ \A i, j \in 1..Len(r) : r[i].prime = r[j].prime => i = j
           /\ \A i \in 1..Len(r) : r[i].rank = i
           /\ {r[i].rank : i \in 1..Len(r)} = 1..10
           /\ \A j \in 1..Len(r) : ~TanhLess(AbsNormalized(r[1]), AbsNormalized(r[j]))

\* a vector of ten or more elements whose strongest activation is not that
\* of the first registry entry
C7_Witness ==
    /\ Applied("mapEmbeddingsToPrimes")
    /\ Len(probe.embedding) >= 10
    /\ out[1][1].prime # 2
    /\ TanhLess(AbsNormalized(out[1][10]), AbsNormalized(out[1][1]))

\* C8: the entries are in descending order of abs(normalizedActivation), and
\* entries with equal abs(normalizedActivation) are in registry order.
C8_DescendingStable ==
    Applied("mapEmbeddingsToPrimes")
    => LET r == out[1]
       IN  \A i, j \in 1..Len(r) :
              i < j
              => /\ ~TanhLess(AbsNormalized(r[i]), AbsNormalized(r[j]))
                 /\ AbsNormalized(r[i]) = AbsNormalized(r[j])
                    => RegistryIndex(r[i].prime) < RegistryIndex(r[j].prime)

\* entries that tie, behind an entry that comes later in the registry
C8_Witness ==
    /\ Applied("mapEmbeddingsToPrimes")
    /\ \E i, j \in 1..Len(out[1]) :
          /\ 1 < i /\ i < j
          /\ AbsNormalized(out[1][i]) = AbsNormalized(out[1][j])
          /\ RegistryIndex(out[1][1].prime) > RegistryIndex(out[1][j].prime)
          /\ TanhLess(AbsNormalized(out[1][i]), AbsNormalized(out[1][1]))

\* how often glyph g occurs in the segment
Occurrences(seg, g) == Cardinality({i \in DOMAIN seg : seg[i] = g})

\* floor(abs(t) * 5) >= k, for k >= 1
FiveTimesAbsAtLeast(t, k) ==
    IF k <= 4 THEN AtLeast(t.tanhOf, TanhTable.fifths[k])
    ELSE IF k = 5 THEN Saturated(t.tanhOf)
    ELSE FALSE

\* e = max(1, floor(abs(t) * 5))
IsExponentOf(e, t) ==
    /\ e \in 1..5
    /\ e > 1 => FiveTimesAbsAtLeast(t, e)
    /\ ~FiveTimesAbsAtLeast(t, e + 1)

\* C10: the Goedel number is the product, over the occurrences of registry
\* glyphs in the segment, of p^e with e = max(1, floor(abs(normalized
\* activation of p) * 5)), e in 1..5: the exponent of each registry prime p
\* is e times the number of occurrences of p's glyph.
C10_GodelProduct ==
    Applied("encodeAsGodel")
    => \A i \in 1..Len(INTRINSIC_PRIMES) :
          LET p == INTRINSIC_PRIMES[i].prime
              count == Occurrences(probe.tapeSegment, INTRINSIC_PRIMES[i].emoji)
              entry == CHOOSE m \in {probe.primeMappings[j] :
                                        j \in 1..Len(probe.primeMappings)} : m.prime = p
          IN  \E e \in 1..5 :
                 /\ IsExponentOf(e, entry.normalizedActivation)
                 /\ out[1].godelNumber[p] = count * e

\* a segment with a glyph outside the registry and a registry glyph that
\* occurs twice with an exponent of 2 or more
C10_Witness ==
    /\ Applied("encodeAsGodel")
    /\ \E i \in DOMAIN probe.tapeSegment : probe.tapeSegment[i] = Star
    /\ \E i \in 1..Len(INTRINSIC_PRIMES) :
          /\ Occurrences(probe.tapeSegment, INTRINSIC_PRIMES[i].emoji) = 2
          /\ out[1].godelNumber[INTRINSIC_PRIMES[i].prime] >= 4

\* C11: the Goedel number is at least 1 (no registry prime has a negative
\* exponent), and it is exactly 1 for every segment without a registry
\* glyph, the empty segment included, whatever the activations are.
C11_GodelAtLeastOne ==
    Applied("encodeAsGodel")
    => /\ \A p \in RegistryPrimes : out[1].godelNumber[p] >= 0
       /\ (\A i \in DOMAIN probe.tapeSegment :
               probe.tapeSegment[i] \notin RegistryEmojis)
          => out[1].godelNumber = BigOne

\* a segment of a separator and a glyph outside the registry, encoded with
\* activations whose exponents are above 1
C11_Witness ==
    /\ Applied("encodeAsGodel")
    /\ {probe.tapeSegment[i] : i \in DOMAIN probe.tapeSegment} = {Bar, Star}
    /\ Exponent(probe.primeMappings, 2) > 1
    /\ out[1].godelNumber = BigOne

\* C12: hierarchy.size is the number of code points of the segment
\* (separators counted, each glyph once), hierarchy.program is the segment
\* itself and hierarchy.cycles is floor(size / 7).
C12_HierarchyOfCodePoints ==
    Applied("encodeAsGodel")
    => /\ out[1].hierarchy.size = Len(probe.tapeSegment)
       /\ out[1].hierarchy.program = probe.tapeSegment
       /\ out[1].hierarchy.cycles = out[1].hierarchy.size \div 7

(***************************************************************************)
(* sampleTape: the result for the constant vector and the universal anchor  *)
(***************************************************************************)
Returned(c, op) == calls[c].op = op /\ calls[c].pc = "done"

WithoutSeparators(tape) == SelectSeq(tape, LAMBDA g : g # Bar)

\* the ten entries expected for a vector of ones: tanh(1) everywhere, registry
\* order
OnesMapping ==
    [i \in 1..10 |->
        [prime |-> INTRINSIC_PRIMES[i].prime,
         normalizedActivation |-> [tanhOf |-> Num(1)],
         rank |-> i]]

\* exponent 3 for every occurrence of a registry glyph in the default tape
OnesGodelNumber ==
    [p \in RegistryPrimes |->
        3 * Occurrences(EMOJI_BLOCK_TAPE, INTRINSIC_PRIMES[RegistryIndex(p)].emoji)]

\* the default tape without its separators, encoded with each ranking
SeparatorFreeGodelNumber ==
    [pm \in {RankedMappings(ReduceToPrimeDimensions(v, Len(INTRINSIC_PRIMES))) :
                v \in ProviderVectors} |->
        EncodeAsGodel(WithoutSeparators(EMOJI_BLOCK_TAPE), pm).godelNumber]

C14_UniversalAnchor ==
    \A c \in CallIds :
        Returned(c, "sampleTape")
        => LET r == calls[c].result[1]
           IN  /\ \E i \in 1..Len(r.primeMapping) : r.primeMapping[i].prime = 2
               /\ \A i \in 1..Len(r.primeMapping) :
                     r.primeMapping[i].prime = 2
                     => /\ r.universalAnchor.prime2Activation
                              = r.primeMapping[i].activation
                        /\ r.universalAnchor.consistencyScore.tanhOf
                              = RatAbs(r.primeMapping[i].normalizedActivation.tanhOf)
               /\ r.universalAnchor.semanticDrift = Zero

\* a result whose entry for prime 2 has a negative activation and is not the
\* first of the ranking
C14_Witness ==
    \E c \in CallIds :
        /\ Returned(c, "sampleTape")
        /\ calls[c].result[1].primeMapping[1].prime # 2
        /\ calls[c].result[1].universalAnchor.prime2Activation.n < 0
        /\ calls[c].result[1].universalAnchor.consistencyScore.tanhOf.n > 0

(***************************************************************************)
(* The variance of the prime-2 activations                                  *)
(***************************************************************************)
ActivationsOf(results) ==
    [i \in 1..Len(results) |-> results[i].universalAnchor.prime2Activation]

\* the exact sum of the numbers xs and the exact sum of their squares
RECURSIVE ExactSum(_)
ExactSum(xs) ==
    IF xs = <<>> THEN F64Zero ELSE DyadicAdd(Head(xs), ExactSum(Tail(xs)))

RECURSIVE ExactSumOfSquares(_)
ExactSumOfSquares(xs) ==
    IF xs = <<>> THEN F64Zero
    ELSE DyadicAdd(DyadicTimes(Head(xs), Head(xs)), ExactSumOfSquares(Tail(xs)))

\* N^2 times the population variance of xs: N * sum(x^2) - (sum x)^2
ExactVarianceTimesSquare(xs) ==
    DyadicAdd(DyadicTimes(F64FromInt(Len(xs)), ExactSumOfSquares(xs)),
              DyadicNeg(DyadicTimes(ExactSum(xs), ExactSum(xs))))

\* |x| <= |y| for dyadic numbers
AbsAtMost(x, y) ==
    LET e == Min(x.e, y.e)
    IN  MagCompare(MagShiftLeft(x.m, x.e - e), MagShiftLeft(y.m, y.e - e)) <= 0

\* x is y up to the rounding of a few operations: |x - y| <= |y| / 2^40
EqualUpToRounding(x, y) ==
    LET diff == DyadicAdd(x, DyadicNeg(y))
    IN  AbsAtMost([diff EXCEPT !.e = @ + 40], y)

\* the returned number is the population variance (divisor N) of the
\* activations, up to rounding
IsPopulationVariance(variance, xs) ==
    EqualUpToRounding(DyadicTimes(F64FromInt(Len(xs) * Len(xs)), variance),
                      ExactVarianceTimesSquare(xs))

\* C15: for every non-empty sequence of results, the prime-2 variance is the
\* population variance of their prime2Activation values (the sum of the
\* squared deviations from the mean, divided by N); it is 0 for a single
\* result, and 0 whenever all N values are identical.
C15_PopulationVariance ==
    Applied("calculatePrime2Variance")
    => LET xs == ActivationsOf(probe.results)
       IN  /\ Len(xs) = 1 => out[1] = F64Zero
           /\ (\A i \in DOMAIN xs : xs[i] = xs[1]) => out[1] = F64Zero
           /\ IsPopulationVariance(out[1], xs)

(***************************************************************************)
(* Tokenization and the cache of handles                                    *)
(***************************************************************************)
\* what tokenizeTape has returned to call c, directly or inside sampleTape:
\* a sequence of no or one tokenization
TokenizationOf(c) ==
    IF Returned(c, "tokenizeTape") THEN calls[c].result
    ELSE IF calls[c].op = "sampleTape" THEN calls[c].tokenization
    ELSE <<>>

\* one id per glyph, and with it the ids of each tape
IdOfGlyph == [g \in Glyphs |-> TokenId(g)]

IdsOfTape == [tape \in Tapes |-> [i \in 1..Len(tape) |-> IdOfGlyph[tape[i]]]]

\* C16: tokenizeTape returns one token id per code point of the tape, in
\* order and separators included, tokenStrings equal to the code points, and
\* sequenceLength equal to the number of ids; the id of a code point
\* depends on nothing but the code point, so the ids of a tape are the same
\* for every initialized model and for every call.
C16_TokensDependOnTapeOnly ==
    \A c \in CallIds :
        TokenizationOf(c) # <<>>
        => LET t == TokenizationOf(c)[1]
           IN  /\ Len(t.tokens) = Len(calls[c].tape)
               /\ t.tokenStrings = calls[c].tape
               /\ t.metadata.sequenceLength = Len(t.tokens)
               /\ t.tokens = IdsOfTape[calls[c].tape]
               /\ \A d \in CallIds :
                     (TokenizationOf(d) # <<>> /\ calls[d].tape = calls[c].tape)
                     => TokenizationOf(d)[1].tokens = t.tokens

\* the default tape, with its separators, tokenized for two different models
C16_Witness ==
    \E c, d \in CallIds :
        /\ TokenizationOf(c) # <<>> /\ TokenizationOf(d) # <<>>
        /\ calls[c].model # calls[d].model
        /\ calls[c].tape = EMOJI_BLOCK_TAPE /\ calls[d].tape = EMOJI_BLOCK_TAPE
        /\ TokenizationOf(c)[1].model # TokenizationOf(d)[1].model
        /\ TokenizationOf(c)[1].metadata.sequenceLength = 21

\* h for a glyph of one or two code units, starting at 0: c1, or 31 * c1 + c2,
\* both below 2^31
HashOfGlyph(g) ==
    IF Len(CodeUnits(g)) = 1 THEN CodeUnits(g)[1]
    ELSE 31 * CodeUnits(g)[1] + CodeUnits(g)[2]

\* abs(h) mod 50000 per glyph, and with it per tape
HashIdOfGlyph == [g \in Glyphs |-> AbsInt(HashOfGlyph(g)) % 50000]

HashIdsOfTape ==
    [tape \in Tapes |-> [i \in 1..Len(tape) |-> HashIdOfGlyph[tape[i]]]]

\* C17: each token id is abs(h) mod 50000, h being the result of
\* h = ((h << 5) - h + c) over the code units c of the glyph, wrapped to 32
\* bits; every token id lies in 0..49999.
C17_TokenIdIsHash ==
    \A c \in CallIds :
        TokenizationOf(c) # <<>>
        => LET t == TokenizationOf(c)[1]
           IN  /\ t.tokens = HashIdsOfTape[calls[c].tape]
               /\ \A i \in DOMAIN t.tokens : t.tokens[i] \in 0..49999

\* the default tape tokenized: glyphs of two code units and the separator,
\* with the ids 23074 of U+1FA90, 23293 of U+1F3A9 and 124 of the separator
C17_Witness ==
    \E c \in CallIds :
        /\ TokenizationOf(c) # <<>>
        /\ calls[c].tape = EMOJI_BLOCK_TAPE
        /\ TokenizationOf(c)[1].tokens[1] = 23074
        /\ TokenizationOf(c)[1].tokens[2] = 23293
        /\ TokenizationOf(c)[1].tokens[8] = 124

\* C18: in every state of the cache a model has a tokenizer handle if and
\* only if it has an embedder handle, and the two are the same handle.
C18_OneHandlePerModel ==
    \A m \in Models : tokenizers[m] = embedders[m]

\* a model loaded twice: the second handle has replaced the first in both maps
C18_Witness ==
    \E m \in Models :
        /\ calls[1].model = m /\ calls[1].handle = 1
        /\ tokenizers[m] = 2 /\ embedders[m] = 2

(***************************************************************************)
(* Ownership of the results                                                 *)
(***************************************************************************)
\* the objects that make up the sampling result of call c
PartsOfResult(c) ==
    LET o == calls[c].objects[1]
    IN  <<o.self, o.tokenization, o.embeddings, o.primeMapping, o.godelEncoding.self,
          o.godelEncoding.primeMappings, o.godelEncoding.hierarchy, o.universalAnchor>>

\* C19: every part of a returned result is an object of its own: no part is
\* the same object as another part, the list of activations inside the
\* Goedel encoding is neither the list passed to encodeAsGodel nor the
\* primeMapping of the sampling result, and no two calls share a part.
C19_ResultsFresh ==
    \A c \in CallIds :
        Returned(c, "sampleTape")
        => /\ \A i, j \in 1..Len(PartsOfResult(c)) :
                 i # j => PartsOfResult(c)[i] # PartsOfResult(c)[j]
           /\ calls[c].objects[1].godelEncoding.primeMappings
                 # MapEmbeddingsToPrimesObject(c)
           /\ \A d \in CallIds \ {c} :
                 Returned(d, "sampleTape")
                 => \A i, j \in 1..Len(PartsOfResult(c)) :
                       PartsOfResult(c)[i] # PartsOfResult(d)[j]

(***************************************************************************)
(* The display's Goedel number against the encoder's                        *)
(***************************************************************************)
\* the entry of the activations for prime p
EntryOf(primeMappings, p) ==
    CHOOSE m \in {primeMappings[j] : j \in 1..Len(primeMappings)} : m.prime = p

\* every exponent that the encoder uses on this segment is 1
AllUsedExponentsOne(seg, primeMappings) ==
    \A i \in 1..Len(INTRINSIC_PRIMES) :
        Occurrences(seg, INTRINSIC_PRIMES[i].emoji) > 0
        => IsExponentOf(1, EntryOf(primeMappings, INTRINSIC_PRIMES[i].prime).normalizedActivation)

\* g < h for products of powers of the registry primes, decided where no
\* exponent of g exceeds that of h
BigLess(g, h) ==
    /\ \A p \in RegistryPrimes : g[p] <= h[p]
    /\ \E p \in RegistryPrimes : g[p] < h[p]

\* C20: calculateGodelNumber(tape) is the product of the registry primes, one
\* factor per occurrence of a registry glyph in the tape, whatever the
\* activations; it equals the godelNumber of encodeAsGodel(tape, activations)
\* exactly when every exponent the encoder uses is 1, and is strictly
\* smaller otherwise.
C20_DisplayVariant ==
    Applied("calculateGodelNumber")
    => LET display == out[1]
           encoded == EncodeAsGodel(probe.tapeSegment, probe.primeMappings).godelNumber
       IN  /\ \A i \in 1..Len(INTRINSIC_PRIMES) :
                 display[INTRINSIC_PRIMES[i].prime]
                     = Occurrences(probe.tapeSegment, INTRINSIC_PRIMES[i].emoji)
           /\ (display = encoded)
                 <=> AllUsedExponentsOne(probe.tapeSegment, probe.primeMappings)
           /\ display # encoded => BigLess(display, encoded)

\* a tape with a separator and two occurrences of a glyph whose exponent in
\* the encoder is above 1: the display's number is strictly smaller
C20_Witness ==
    /\ Applied("calculateGodelNumber")
    /\ \E i \in DOMAIN probe.tapeSegment : probe.tapeSegment[i] = Bar
    /\ \E i \in 1..Len(INTRINSIC_PRIMES) :
          /\ Occurrences(probe.tapeSegment, INTRINSIC_PRIMES[i].emoji) = 2
          /\ out[1][INTRINSIC_PRIMES[i].prime] = 2
          /\ EncodeAsGodel(probe.tapeSegment, probe.primeMappings)
                 .godelNumber[INTRINSIC_PRIMES[i].prime] > 2

(***************************************************************************)
(* A provider failure during initialization                                 *)
(***************************************************************************)
\* C22: when the provider fails during initializeModel(m), the call fails
\* with the provider's error and the two maps are as before the call, for m
\* and for every other model; while m has no entry, a following
\* tokenizeTape(m) or embedTape(m) fails as not initialized and a following
\* sampleTape(m) calls the provider again.
C22_FailedInitializationLeavesCache ==
    [][\A c \in CallIds :
          /\ (calls[c].pc = "loading" /\ calls'[c].pc = "failed")
             => /\ calls'[c].error = "ModelInitError"
                /\ calls'[c].result = <<>>
                /\ UNCHANGED <<tokenizers, embedders>>
          /\ (/\ calls[c].pc = "idle"
              /\ calls'[c].pc # "idle"
              /\ tokenizers[calls'[c].model] = 0
              /\ \E b \in CallIds : /\ calls[b].model = calls'[c].model
                                     /\ calls[b].error = "ModelInitError")
             => /\ calls'[c].op \in {"tokenizeTape", "embedTape"}
                   => /\ calls'[c].pc = "failed"
                      /\ calls'[c].error = "ModelNotInitialized"
                /\ calls'[c].op = "sampleTape"
                   => /\ calls'[c].pc = "loading"
                      /\ pipelineCalls'[calls'[c].model]
                            = pipelineCalls[calls'[c].model] + 1]_vars

\* the initialization of a model has failed while the other model keeps its
\* handle, and the model of the failed call still has no entry
C22_Witness ==
    \E c \in CallIds, m \in Models :
        /\ calls[c].op = "initializeModel"
        /\ calls[c].error = "ModelInitError"
        /\ tokenizers[calls[c].model] = 0 /\ embedders[calls[c].model] = 0
        /\ m # calls[c].model
        /\ tokenizers[m] # 0 /\ embedders[m] # 0

(***************************************************************************)
(* The Goedel number of a concatenation                                     *)
(***************************************************************************)
\* g * h for products of powers of the registry primes
BigProduct(g, h) == [p \in RegistryPrimes |-> g[p] + h[p]]

GodelNumberOf(seg, primeMappings) == EncodeAsGodel(seg, primeMappings).godelNumber

\* the three segments of the default tape
DefaultSegments ==
    <<SubSeq(EMOJI_BLOCK_TAPE, 1, 7), SubSeq(EMOJI_BLOCK_TAPE, 9, 13),
      SubSeq(EMOJI_BLOCK_TAPE, 15, 21)>>

\* the default tape encoded as a whole and segment by segment, per
\* activation set
WholeTapeGodel == [pm \in ActivationSets |-> GodelNumberOf(EMOJI_BLOCK_TAPE, pm)]

SegmentwiseGodel ==
    [pm \in ActivationSets |->
        BigProduct(GodelNumberOf(DefaultSegments[1], pm),
                   BigProduct(GodelNumberOf(DefaultSegments[2], pm),
                              GodelNumberOf(DefaultSegments[3], pm)))]

\* C23: for fixed activations the Goedel number is multiplicative over
\* concatenation and insensitive to separators and to the order of the
\* glyphs: godelNumber(s1 + '|' + s2) = godelNumber(s1) * godelNumber(s2) for
\* every way to split a segment, the number of the whole default tape is the
\* product of the numbers of its segments, and every permutation of a
\* segment has the number of the segment.
C23_Multiplicative ==
    Applied("encodeAsGodel")
    => LET seg == probe.tapeSegment
           pm == probe.primeMappings
       IN  /\ \A k \in 0..Len(seg) :
                 LET s1 == SubSeq(seg, 1, k)
                     s2 == SubSeq(seg, k + 1, Len(seg))
                     product == BigProduct(GodelNumberOf(s1, pm), GodelNumberOf(s2, pm))
                 IN  /\ GodelNumberOf(s1 \o <<Bar>> \o s2, pm) = product
                     /\ out[1].godelNumber = product
           /\ \A perm \in Permutations(1..Len(seg)) :
                 GodelNumberOf([i \in 1..Len(seg) |-> seg[perm[i]]], pm)
                     = out[1].godelNumber
           /\ WholeTapeGodel[pm] = SegmentwiseGodel[pm]

\* a segment of three different glyphs, among them a separator between two
\* registry glyphs, one of these with an exponent above 1
C23_Witness ==
    /\ Applied("encodeAsGodel")
    /\ Len(probe.tapeSegment) = 3
    /\ probe.tapeSegment[2] = Bar
    /\ probe.tapeSegment[1] \in RegistryEmojis
    /\ probe.tapeSegment[3] \in RegistryEmojis
    /\ probe.tapeSegment[1] # probe.tapeSegment[3]
    /\ out[1].godelNumber[PrimeOf(probe.tapeSegment[1])] > 1

(***************************************************************************)
(* "Sample All Models": one run at a time                                   *)
(***************************************************************************)
\* sampleModel has begun and has not reached the end of its finally block
InFlight(r) == ui.runs[r].pc \in {"initializing", "delay1", "delay2", "sampling"}

\* C21: "Sample All Models" samples the models one after the other: at no
\* time are two runs of sampleModel in flight, however long a run takes, and
\* the loading flag is true as long as a run is in flight.
C21_OneRunAtATime ==
    /\ \A r, s \in Runs : (InFlight(r) /\ InFlight(s)) => r = s
    /\ (\E r \in Runs : InFlight(r)) => ui.isLoading

====
